---------------------------- MODULE Spec2Model ----------------------------
(***************************************************************************)
(* Model of the healthcare ingestion pipeline's reconciliation workflow:   *)
(* the Celery task process_csv_workflow (src/worker/celery_app.py), the    *)
(* PatientService operations it calls (src/app/services/patient_service.py)*)
(* over the Patient / Person / Visit tables (src/app/models/models.py),    *)
(* the S3 download it starts with (src/app/services/s3_service.py), and   *)
(* the two API endpoints around it: POST /ingest (src/app/api/ingest.py)   *)
(* and GET /patients (src/app/api/patients.py).                            *)
(*                                                                         *)
(* The relational store holds committed rows only: a service call that     *)
(* writes commits before it returns and is one step, except create_patient,*)
(* which flushes the patient row before it commits it with the person row  *)
(* and is two steps, the flushed row waiting in the session in between.    *)
(* The SQLAlchemy session is modelled by its states: "active"; "inactive"  *)
(* after a flush failed (every later query or commit on it raises until    *)
(* rollback() is called, which the task never does); and "aborted" after   *)
(* the database rejected a query (it refuses every statement of the        *)
(* transaction until the next commit, which ends it as a rollback).        *)
(***************************************************************************)
EXTENDS Integers, Sequences, FiniteSets, TLC

(***************************************************************************)
(* Bounds of the model.                                                    *)
(***************************************************************************)
\* longest staged batch
MaxRows == 3
\* longest staged batch of the two-worker specification
MaxRowsConc == 1
\* invocations of the task over one behaviour
MaxRuns == 2
\* rows per chunk; CHUNK_SIZE = 500 in the source, scaled so that a batch
\* of MaxRows rows spans more than one chunk
CHUNK_SIZE == 2
\* progress cadence; "processed_count % 100" in the source, scaled likewise
PROGRESS_EVERY == 2
\* requests the ingest endpoint answers over one behaviour
MaxCalls == 2
\* seconds the API host's clock advances over one behaviour
MaxClock == 1
\* highest page number requested from the listing
MaxPage == 3
\* largest of the small patient tables the listing is run on (next to the
\* table of 25); up to this size every order of the rows is tried
MaxListed == 3

Workers == {1, 2}

\* Python's None for the surrogate ids (ids start at 1)
None == 0

(***************************************************************************)
(* Input rows: the seven columns of the staged CSV, all strings.           *)
(***************************************************************************)
Row(m, fn, ln, bd, acct, vd, rs) ==
    [mrn |-> m, first_name |-> fn, last_name |-> ln, birth_date |-> bd,
     visit_account_number |-> acct, visit_date |-> vd, reason |-> rs]

RowSet ==
    { Row("M1", "Jane",  "Doe", "1980-01-01", "V1", "2024-03-01", "checkup"),
      Row("M1", "Jane",  "Doe", "1980-01-01", "V1", "2024-03-02", "followup"),
      Row("M1", "Janet", "Roe", "1980-01-02", "V2", "2024-03-01", "checkup"),
      Row("M2", "Jane",  "Doe", "1980-01-01", "V2", "2024-03-01", "checkup"),
      Row("M2", "Jane",  "Doe", "not-a-date", "V1", "2024-03-01", "checkup"),
      Row("M1", "Jane",  "Doe", "1980-01-01", "V2", "not-a-date", "checkup"),
      Row("M2", "Janet", "Doe", "1980-01-01", "V1", "2024-03-02", "checkup") }

Batches == UNION { [1..n -> RowSet] : n \in 0..MaxRows }

\* the batches of the crash specification: the rows of one visit date
CrashRowSet == {r \in RowSet : r.visit_date = "2024-03-01"}

CrashBatches == UNION { [1..n -> CrashRowSet] : n \in 0..MaxRows }

\* the batches of the two-worker specification
ConcBatches == UNION { [1..n -> CrashRowSet] : n \in 1..MaxRowsConc }

\* pd.to_datetime(s).date(): a calendar date <<y, m, d>>, or a ParserError
ParserError == <<>>

to_datetime(s) ==
    CASE s = "1980-01-01" -> <<1980, 1, 1>>
      [] s = "1980-01-02" -> <<1980, 1, 2>>
      [] s = "2024-03-01" -> <<2024, 3, 1>>
      [] s = "2024-03-02" -> <<2024, 3, 2>>
      [] OTHER -> ParserError

\* the integer pd.read_csv reads a field as, <<n>>, or NotANumber
NotANumber == <<>>

to_numeric(s) ==
    CASE s = "1001" -> <<1001>>
      [] s = "1002" -> <<1002>>
      [] OTHER -> NotANumber

\* the type pd.read_csv gives a column of a chunk: it is inferred from the
\* chunk's own values, int64 when every one of them reads as an integer
dtype(chunk, col) ==
    IF \A i \in 1..Len(chunk) : to_numeric(chunk[i][col]) # NotANumber
    THEN "int64" ELSE "object"

(***************************************************************************)
(* The relational store: committed rows of the three tables and the two    *)
(* autoincrement sequences.                                                *)
(***************************************************************************)
EmptyStore ==
    [patients |-> {}, persons |-> {}, visits |-> {},
     patient_seq |-> 0, visit_seq |-> 0]

Patient(id, mrn) == [id |-> id, mrn |-> mrn]

Person(id, fn, ln, bd) ==
    [id |-> id, first_name |-> fn, last_name |-> ln, birth_date |-> bd]

Visit(id, acct, pid, vd, rs) ==
    [id |-> id, visit_account_number |-> acct, patient_id |-> pid,
     visit_date |-> vd, reason |-> rs]

\* the lookup without its filter: the first patient of the table
get_patient_by_mrn_unfiltered(s, mrn) ==
    IF s.patients # {}
    THEN (CHOOSE p \in s.patients : \A q \in s.patients : p.id <= q.id).id
    ELSE None

\* db.query(Patient).filter(Patient.mrn == mrn).first()
get_patient_by_mrn(s, mrn) ==
    IF \E p \in s.patients : p.mrn = mrn
    THEN (CHOOSE p \in s.patients : p.mrn = mrn).id
    ELSE None

\* the visit lookup that finds nothing
get_visit_by_account_number_finds_none(s, acct) == None

\* db.query(Visit).filter(Visit.visit_account_number == acct).first()
get_visit_by_account_number(s, acct) ==
    IF \E v \in s.visits : v.visit_account_number = acct
    THEN (CHOOSE v \in s.visits : v.visit_account_number = acct).id
    ELSE None

\* patient.person: the Person row sharing the patient's id (None without one)
HasPerson(s, pid) == \E p \in s.persons : p.id = pid

PersonOf(s, pid) == CHOOSE p \in s.persons : p.id = pid

VisitOf(s, vid) == CHOOSE v \in s.visits : v.id = vid

\* the first half with a commit in the place of the flush
create_patient_flush_commits(s, mrn) ==
    LET id == s.patient_seq + 1 IN
    [ok |-> ~(\E p \in s.patients : p.mrn = mrn),
     id |-> IF \E p \in s.patients : p.mrn = mrn THEN None ELSE id,
     store |-> IF \E p \in s.patients : p.mrn = mrn
               THEN [s EXCEPT !.patient_seq = id]
               ELSE [s EXCEPT !.patient_seq = id,
                              !.patients = @ \cup {Patient(id, mrn)}]]

\* the first half on a table without the unique index on mrn
create_patient_flush_without_index(s, mrn) ==
    [ok |-> TRUE, id |-> s.patient_seq + 1,
     store |-> [s EXCEPT !.patient_seq = s.patient_seq + 1]]

\* create_patient, first half: INSERT patient and flush.  The unique index on
\* patients.mrn rejects a second row with the same MRN (IntegrityError); the
\* sequence value drawn for the row is not given back either way.  The row
\* is in the session's transaction, not yet in the committed store.
create_patient_flush(s, mrn) ==
    LET id == s.patient_seq + 1 IN
    [ok |-> ~(\E p \in s.patients : p.mrn = mrn),
     id |-> IF \E p \in s.patients : p.mrn = mrn THEN None ELSE id,
     store |-> [s EXCEPT !.patient_seq = id]]

\* the second half with first_name and last_name passed in the wrong order
create_patient_commit_names_swapped(s, id, mrn, fn, ln, bd) ==
    [s EXCEPT !.patients = @ \cup {Patient(id, mrn)},
              !.persons = @ \cup {Person(id, ln, fn, bd)}]

\* create_patient, second half: INSERT person with the patient's id, COMMIT;
\* the two rows become visible together
create_patient_commit(s, id, mrn, fn, ln, bd) ==
    [s EXCEPT !.patients = @ \cup {Patient(id, mrn)},
              !.persons = @ \cup {Person(id, fn, ln, bd)}]

\* person_after without the last_name statement
person_after_skips_last_name(p, fn, ln, bd) ==
    LET p1 == IF p.first_name # fn THEN [p EXCEPT !.first_name = fn] ELSE p
    IN  IF p1.birth_date # bd THEN [p1 EXCEPT !.birth_date = bd] ELSE p1

\* the three field-wise compare-and-set statements of update_person
person_after(p, fn, ln, bd) ==
    LET p1 == IF p.first_name # fn THEN [p EXCEPT !.first_name = fn] ELSE p
        p2 == IF p1.last_name # ln THEN [p1 EXCEPT !.last_name = ln] ELSE p1
    IN  IF p2.birth_date # bd THEN [p2 EXCEPT !.birth_date = bd] ELSE p2

\* update_person written as delete and re-insert, the re-insert left out
update_person_deletes(s, pid, fn, ln, bd) ==
    IF ~HasPerson(s, pid)
    THEN [ok |-> FALSE, updated |-> FALSE, store |-> s]
    ELSE [ok |-> TRUE, updated |-> TRUE,
          store |-> [s EXCEPT !.persons = @ \ {PersonOf(s, pid)}]]

\* update_person that leaves the changed row to the commit at the end of
\* the chunk: nothing of it is in the store until then
update_person_without_commit(s, pid, fn, ln, bd) ==
    IF ~HasPerson(s, pid)
    THEN [ok |-> FALSE, updated |-> FALSE, store |-> s]
    ELSE [ok |-> TRUE, updated |-> FALSE, store |-> s]

\* update_person that commits whether or not a field changed
update_person_always_commits(s, pid, fn, ln, bd) ==
    IF ~HasPerson(s, pid)
    THEN [ok |-> FALSE, updated |-> FALSE, store |-> s]
    ELSE LET old == PersonOf(s, pid)
             new == person_after(old, fn, ln, bd)
         IN  [ok |-> TRUE, updated |-> TRUE,
              store |-> [s EXCEPT !.persons = (@ \ {old}) \cup {new}]]

\* update_person: commits only when a field changed; "person.first_name"
\* on a patient without a Person row is an AttributeError (ok = FALSE)
update_person(s, pid, fn, ln, bd) ==
    IF ~HasPerson(s, pid)
    THEN [ok |-> FALSE, updated |-> FALSE, store |-> s]
    ELSE LET old == PersonOf(s, pid)
             new == person_after(old, fn, ln, bd)
             updated == (old.first_name # fn) \/ (old.last_name # ln)
                            \/ (old.birth_date # bd)
         IN  [ok |-> TRUE, updated |-> updated,
              store |-> IF updated
                        THEN [s EXCEPT !.persons = (@ \ {old}) \cup {new}]
                        ELSE s]

\* create_visit that stores the visit under its own id instead of the patient's
create_visit_wrong_owner(s, pid, acct, vd, rs) ==
    LET id == s.visit_seq + 1 IN
    IF \E v \in s.visits : v.visit_account_number = acct
    THEN [ok |-> FALSE, id |-> None,
          store |-> [s EXCEPT !.visit_seq = id]]
    ELSE [ok |-> TRUE, id |-> id,
          store |-> [s EXCEPT !.visits = @ \cup {Visit(id, acct, pid + id, vd, rs)},
                              !.visit_seq = id]]

\* INSERT visit, COMMIT; the unique index on visits.visit_account_number
\* rejects a second row with the same account number.
create_visit(s, pid, acct, vd, rs) ==
    LET id == s.visit_seq + 1 IN
    IF \E v \in s.visits : v.visit_account_number = acct
    THEN [ok |-> FALSE, id |-> None,
          store |-> [s EXCEPT !.visit_seq = id]]
    ELSE [ok |-> TRUE, id |-> id,
          store |-> [s EXCEPT !.visits = @ \cup {Visit(id, acct, pid, vd, rs)},
                              !.visit_seq = id]]

\* the two compare-and-set statements of update_visit
visit_after(v, vd, rs) ==
    LET v1 == IF v.visit_date # vd THEN [v EXCEPT !.visit_date = vd] ELSE v
    IN  IF v1.reason # rs THEN [v1 EXCEPT !.reason = rs] ELSE v1

\* update_visit that also hands the visit to the newest patient
update_visit_reassigns(s, vid, vd, rs) ==
    LET old == VisitOf(s, vid)
        new == [visit_after(old, vd, rs) EXCEPT !.patient_id = s.patient_seq]
    IN  [updated |-> old # new,
         store |-> [s EXCEPT !.visits = (@ \ {old}) \cup {new}]]

\* update_visit: commits only when a field changed
update_visit(s, vid, vd, rs) ==
    LET old == VisitOf(s, vid)
        new == visit_after(old, vd, rs)
        updated == (old.visit_date # vd) \/ (old.reason # rs)
    IN  [updated |-> updated,
         store |-> IF updated
                   THEN [s EXCEPT !.visits = (@ \ {old}) \cup {new}]
                   ELSE s]


(***************************************************************************)
(* Files: the S3 bucket and the upload directory are maps from the object  *)
(* name to the rows of the CSV stored under it.                            *)
(***************************************************************************)
\* s3_client.download_file(bucket, object_name, file_path): the local copy
download_file(b, u, name) == (name :> b[name]) @@ u

\* os.remove that leaves the file in place
os_remove_keeps_file(u, name) == u

\* os.remove(local_filepath)
os_remove(u, name) == [n \in DOMAIN u \ {name} |-> u[n]]

(***************************************************************************)
(* The ingest endpoint's inputs and helpers.                               *)
(***************************************************************************)
\* a validated VisitRecord of the request body: the two dates are dates
VisitRecord(m, fn, ln, bd, acct, vd, rs) ==
    [mrn |-> m, first_name |-> fn, last_name |-> ln, birth_date |-> bd,
     visit_account_number |-> acct, visit_date |-> vd, reason |-> rs]

\* request bodies
Payloads ==
    { <<>>,
      <<VisitRecord("M1", "Jane", "Doe", <<1980, 1, 1>>, "V1", <<2024, 3, 1>>,
                    "checkup")>>,
      <<VisitRecord("M1", "Janet", "Roe", <<1980, 1, 2>>, "V2", <<2024, 3, 1>>,
                    "checkup")>> }

\* date.isoformat()
isoformat(d) ==
    CASE d = <<1980, 1, 1>> -> "1980-01-01"
      [] d = <<1980, 1, 2>> -> "1980-01-02"
      [] d = <<2024, 3, 1>> -> "2024-03-01"
      [] d = <<2024, 3, 2>> -> "2024-03-02"

\* datetime.now().strftime("%Y%m%d_%H%M%S"), the clock counted in seconds
\* from 2024-03-01 12:00:00
strftime(now) ==
    CASE now = 0 -> "20240301_120000"
      [] now = 1 -> "20240301_120001"
      [] now = 2 -> "20240301_120002"
      [] OTHER -> "20240301_120003"

\* the name create_csv_from_records gives the file
csv_filename_at(now) == "patient_intake_" \o strftime(now) \o ".csv"

\* the data rows create_csv_from_records writes under the header
csv_rows(records) ==
    [i \in 1..Len(records) |->
        Row(records[i].mrn, records[i].first_name, records[i].last_name,
            isoformat(records[i].birth_date), records[i].visit_account_number,
            isoformat(records[i].visit_date), records[i].reason)]

\* upload_file that returns True without storing the object
upload_file_stores_nothing(b, name, rows) == b

\* s3_client.upload_file(file_path, bucket, object_name): the object is
\* stored under the name, replacing what was stored under it
upload_file(b, name, rows) == (name :> rows) @@ b

(***************************************************************************)
(* The patient listing.  The tables it is run on hold their strings as     *)
(* sequences of characters, so that ILIKE can look into them.              *)
(***************************************************************************)
DigitChar(n) == <<"0", "1", "2", "3", "4", "5", "6", "7", "8", "9">>[n + 1]

\* patient i of the listing tables: MRN "M<i>"; Janet for even i, else Jane;
\* Roe for i = 2, 12, 22, else Doe
ListedMrn(i) ==
    IF i < 10 THEN <<"M", DigitChar(i)>>
              ELSE <<"M", DigitChar(i \div 10), DigitChar(i % 10)>>

ListedFirstName(i) ==
    IF i % 2 = 0 THEN <<"J", "a", "n", "e", "t">> ELSE <<"J", "a", "n", "e">>

ListedLastName(i) ==
    IF i % 10 = 2 THEN <<"R", "o", "e">> ELSE <<"D", "o", "e">>

\* the store with patients 1..n, each with its person
ListedStore(n) ==
    [patients |-> {Patient(i, ListedMrn(i)) : i \in 1..n},
     persons |-> {Person(i, ListedFirstName(i), ListedLastName(i), <<1980, 1, 1>>)
                     : i \in 1..n},
     visits |-> {}, patient_seq |-> n, visit_seq |-> 0]

ListedStores == {ListedStore(n) : n \in 0..MaxListed} \cup {ListedStore(25)}

\* the query parameters: page >= 1, 1 <= page_size <= 100; a filter that is
\* absent or empty is falsy, the empty string stands for both
Pages == 1..MaxPage

PageSizes == {1, 2, 10}

MrnFilters == {<<>>, <<"m", "1">>}

FirstNameFilters == {<<>>, <<"E", "T">>}

LastNameFilters == {<<>>, <<"r", "o", "e">>, <<"_", "o">>}

\* lower case of the letters the tables and filters use
lower(c) ==
    CASE c = "D" -> "d"
      [] c = "E" -> "e"
      [] c = "J" -> "j"
      [] c = "M" -> "m"
      [] c = "R" -> "r"
      [] c = "T" -> "t"
      [] OTHER -> c

\* column.ilike(f"%{pat}%"): pat occurs in text, letters compared without
\* case, "_" in pat standing for any one character
ilike(text, pat) ==
    \E i \in 1..(Len(text) - Len(pat) + 1) :
       \A k \in 1..Len(pat) :
          pat[k] = "_" \/ lower(text[i + k - 1]) = lower(pat[k])

\* the ids of db.query(Patient).join(Person) under the filters supplied
Matching(s, mrn, first_name, last_name) ==
    {p.id : p \in {q \in s.patients :
        /\ HasPerson(s, q.id)
        /\ Len(mrn) > 0 => ilike(q.mrn, mrn)
        /\ Len(first_name) > 0 => ilike(PersonOf(s, q.id).first_name, first_name)
        /\ Len(last_name) > 0 => ilike(PersonOf(s, q.id).last_name, last_name)}}

\* the rows of S in every order
Enumerations(S) ==
    {f \in [1..Cardinality(S) -> S] :
        \A i, j \in 1..Cardinality(S) : i # j => f[i] # f[j]}

RECURSIVE Ascending(_)
Ascending(S) ==
    IF S = {} THEN <<>>
    ELSE LET m == CHOOSE x \in S : \A y \in S : x <= y
         IN  <<m>> \o Ascending(S \ {m})

Rotations(q) ==
    IF q = <<>> THEN {<<>>}
    ELSE {SubSeq(q, k, Len(q)) \o SubSeq(q, 1, k - 1) : k \in 1..Len(q)}

\* the orders in which the store may hand out the rows of a query that has
\* no ORDER BY: any order; for a table larger than MaxListed the orders
\* tried are the scans in id order that start at any row and wrap around
ScanOrders(S) ==
    IF Cardinality(S) <= MaxListed THEN Enumerations(S)
    ELSE Rotations(Ascending(S))

\* the listing with the offset counted from page 0
get_patients_paginated_page_from_zero(order, page, page_size) ==
    [total |-> Len(order),
     patients |-> SubSeq(order, page * page_size + 1,
                         IF page * page_size + page_size < Len(order)
                         THEN page * page_size + page_size ELSE Len(order))]

\* total = query.count(); query.offset((page - 1) * page_size)
\* .limit(page_size).all(), order being the matching rows as the store
\* hands them out
get_patients_paginated(order, page, page_size) ==
    LET offset == (page - 1) * page_size IN
    [total |-> Len(order),
     patients |-> SubSeq(order, offset + 1,
                         IF offset + page_size < Len(order)
                         THEN offset + page_size ELSE Len(order))]

(***************************************************************************)
(* State.                                                                  *)
(*   store   the relational store (committed rows)                         *)
(*   bucket  the S3 bucket: staged object name -> CSV rows                 *)
(*   uploads the worker host's upload_dir: the downloaded copies, by the   *)
(*           object name they were downloaded from                         *)
(*   task    per worker, the locals of process_csv_workflow and its        *)
(*           position in the code; store0, row_store and chunk_store are   *)
(*           history: the store when the run started, when the current     *)
(*           row started and when the last chunk was committed             *)
(*   hist    history of the runs: how many were started, and the summary   *)
(*           of the last two that ended                                    *)
(*   api     the API process: its clock, the CSV files it wrote, the jobs  *)
(*           it dispatched to the broker and how many of them were         *)
(*           delivered to a worker, the responses it returned to POST      *)
(*           /ingest, and the last response to GET /patients with the      *)
(*           filters it was asked with                                     *)
(*   env     what the run depends on outside its code: the chunk size the  *)
(*           task is built with, whether the result backend refuses        *)
(*           update_state, and whether the database refuses writes; it     *)
(*           never changes                                                 *)
(***************************************************************************)
VARIABLES store, bucket, uploads, task, hist, api, env

vars == <<store, bucket, uploads, task, hist, api, env>>

\* the staged object the batch of the model is stored under
StagedName == "patient_intake_20240301_120000.csv"

FileNames == {StagedName}

\* stores left behind by earlier runs
InitStores ==
    { EmptyStore,
      [patients |-> {Patient(1, "M1")},
       persons |-> {Person(1, "Jane", "Doe", <<1980, 1, 1>>)},
       visits |-> {Visit(1, "V1", 1, <<2024, 3, 1>>, "checkup")},
       patient_seq |-> 1, visit_seq |-> 1],
      [patients |-> {Patient(1, "M2")},
       persons |-> {Person(1, "Janet", "Roe", <<1980, 1, 2>>)},
       visits |-> {Visit(1, "V1", 1, <<2024, 3, 2>>, "followup")},
       patient_seq |-> 1, visit_seq |-> 1] }

NoRun == [status |-> "none"]

\* the API process before its first request
ApiIdle ==
    [now |-> 0, files |-> <<>>, jobs |-> <<>>, delivered |-> 0,
     responses |-> <<>>, listed |-> [total |-> -1]]

\* the task as the repository builds it (CHUNK_SIZE at line 77), with a
\* result backend and a database that answer
Reliable ==
    [chunk_size |-> CHUNK_SIZE, update_state_raises |-> FALSE,
     store_raises |-> FALSE]

IdleTask ==
    [pc |-> "idle", at |-> "idle", csv_filename |-> "", task_id |-> None,
     sess |-> "closed",
     download_success |-> FALSE, rows |-> <<>>, total_records |-> 0,
     processed_count |-> 0,
     patients_created |-> 0, patients_updated |-> 0,
     visits_created |-> 0, visits_updated |-> 0,
     errors |-> <<>>, birth_date |-> ParserError, visit_date |-> ParserError,
     patient |-> None, visit |-> None, pending |-> {},
     commits |-> 0, reports |-> <<>>, removed |-> FALSE, status |-> "none",
     store0 |-> EmptyStore, row_store |-> EmptyStore,
     chunk_store |-> EmptyStore]

Init ==
    /\ store \in InitStores
    /\ \E b \in Batches : bucket = (StagedName :> b)
    /\ uploads = <<>>
    /\ task = [w \in Workers |-> IdleTask]
    /\ hist = [runs |-> 0, last |-> NoRun, prev |-> NoRun]
    /\ api = ApiIdle
    /\ env = Reliable

Running(w) == task[w].pc \notin {"idle", "returned", "crashed"}

\* the workflow phase of the position the worker is at
Phase(w) ==
    LET pc == task[w].pc IN
    CASE pc = "idle" -> "IDLE"
      [] pc = "fetch" -> "FETCHING"
      [] pc = "count" -> "COUNTING"
      [] pc \in {"open", "row", "lookup_patient", "patient", "patient_commit",
                 "lookup_visit", "visit", "chunk_commit"} -> "PROCESSING"
      [] pc = "cleanup" -> "CLEANUP"
      [] pc = "crashed" -> "CRASHED"
      [] OTHER -> IF task[w].status = "completed" THEN "COMPLETED" ELSE "FAILED"

\* the summary of a run that ended, kept in hist
Summary(t, s, how) ==
    [status |-> how, csv_filename |-> t.csv_filename, rows |-> t.rows,
     download_success |-> t.download_success,
     start |-> t.store0, end |-> s,
     patients_created |-> t.patients_created,
     patients_updated |-> t.patients_updated,
     visits_created |-> t.visits_created,
     visits_updated |-> t.visits_updated,
     processed_records |-> t.processed_count,
     error_count |-> Len(t.errors),
     removed |-> t.removed]

Ended(t, s, how) ==
    hist' = [hist EXCEPT !.prev = hist.last, !.last = Summary(t, s, how)]

\* the loop reading the file from its end
CurrentRow_from_the_end(t) == t.rows[Len(t.rows) + 1 - t.processed_count]

\* the chunk the row the loop is at was read in: chunk_df of line 88
ChunkOf(t) ==
    LET lo == ((t.processed_count - 1) \div env.chunk_size) * env.chunk_size + 1
        hi == IF lo + env.chunk_size - 1 < Len(t.rows)
              THEN lo + env.chunk_size - 1 ELSE Len(t.rows)
    IN  SubSeq(t.rows, lo, hi)

\* the row the loop is at
CurrentRow(t) == t.rows[t.processed_count]

\* the outer "except Exception" without the "finally"
Failed_leaves_session_open(t) ==
    [t EXCEPT !.pc = "returned", !.at = t.pc, !.status = "failed",
              !.patient = None, !.visit = None,
              !.birth_date = ParserError, !.visit_date = ParserError]

\* the outer "except Exception" and "finally": status failed, db.close()
Failed(t) ==
    [t EXCEPT !.pc = "returned", !.at = t.pc, !.status = "failed",
              !.sess = "closed",
              !.patient = None, !.visit = None,
              !.birth_date = ParserError, !.visit_date = ParserError]

\* AfterRow that commits once, after the last row of the file
AfterRow_commit_at_end(t) ==
    [t EXCEPT !.pc = IF t.processed_count = Len(t.rows)
                     THEN "chunk_commit" ELSE "row",
              !.patient = None, !.visit = None,
              !.birth_date = ParserError, !.visit_date = ParserError]

\* the end of one loop iteration: the next row of the chunk, or the commit
\* that follows the chunk's last row
AfterRow(t) ==
    [t EXCEPT !.pc = IF t.processed_count % env.chunk_size = 0
                        \/ t.processed_count = Len(t.rows)
                     THEN "chunk_commit" ELSE "row",
              !.patient = None, !.visit = None,
              !.birth_date = ParserError, !.visit_date = ParserError]

\* the per-row "except Exception": the message names the record and its MRN.
\* (errors.append at line 164 is indented one level too deep in the file; it
\* is read as a statement of the except block, the only reading under which
\* the module loads.)
RowError(t, e) ==
    AfterRow([t EXCEPT !.errors = Append(@, [record |-> t.processed_count,
                                             mrn |-> CurrentRow(t).mrn,
                                             error |-> e])])

\* the meta dictionary of self.update_state(state='PROGRESS', ...)
ProgressMeta(t) ==
    [current |-> t.processed_count, total |-> t.total_records,
     percent |-> (t.processed_count * 100) \div t.total_records,
     patients_created |-> t.patients_created,
     patients_updated |-> t.patients_updated,
     visits_created |-> t.visits_created,
     visits_updated |-> t.visits_updated]

\* whether the database refuses the statement at hand
Refusals == IF env.store_raises THEN BOOLEAN ELSE {FALSE}

\* the database refuses the INSERT or UPDATE a service call flushes: the
\* call raises OperationalError into the per-row except, what the session
\* had pending is rolled back, and the session stays inactive
Refused(w) ==
    /\ store' = store
    /\ task' = [task EXCEPT ![w] =
                  RowError([task[w] EXCEPT !.sess = "inactive", !.pending = {}],
                           "OperationalError")]

(***************************************************************************)
(* Actions: the steps of process_csv_workflow, for worker w.               *)
(***************************************************************************)
\* a worker starts the task for job id with a staged object name;
\* db = SessionLocal()
Invoke(w, f, id) ==
    /\ ~Running(w)
    /\ hist.runs < MaxRuns
    /\ task' = [task EXCEPT ![w] =
                  [IdleTask EXCEPT !.pc = "fetch", !.csv_filename = f,
                                   !.task_id = id,
                                   !.sess = "active", !.store0 = store,
                                   !.row_store = store,
                                   !.chunk_store = store]]
    /\ hist' = [hist EXCEPT !.runs = @ + 1]
    /\ UNCHANGED <<store, bucket, uploads>>

\* Step 1: s3_service.download_file; False on any exception of the client
Fetch(w) ==
    /\ task[w].pc = "fetch"
    /\ LET t == task[w] IN
       \E reachable \in BOOLEAN :
          IF reachable /\ t.csv_filename \in DOMAIN bucket
          THEN /\ uploads' = download_file(bucket, uploads, t.csv_filename)
               /\ task' = [task EXCEPT ![w] =
                             [t EXCEPT !.pc = "count", !.download_success = TRUE]]
               /\ UNCHANGED hist
          ELSE /\ task' = [task EXCEPT ![w] = Failed(t)]
               /\ Ended(Failed(t), store, "failed")
               /\ UNCHANGED uploads
    /\ UNCHANGED <<store, bucket, api, env>>

\* Step 2: total_records = lines of the downloaded file - 1
Count(w) ==
    /\ task[w].pc = "count"
    /\ LET t == task[w] IN
       IF t.csv_filename \in DOMAIN uploads
       THEN /\ task' = [task EXCEPT ![w] =
                          [t EXCEPT !.pc = "open",
                                    !.total_records =
                                        (Len(uploads[t.csv_filename]) + 1) - 1]]
            /\ UNCHANGED hist
       ELSE /\ task' = [task EXCEPT ![w] = Failed(t)]
            /\ Ended(Failed(t), store, "failed")
    /\ UNCHANGED <<store, bucket, uploads, api, env>>

\* Step 3: pd.read_csv(local_filepath, chunksize=CHUNK_SIZE) opens the file
Open(w) ==
    /\ task[w].pc = "open"
    /\ LET t == task[w] IN
       IF t.csv_filename \in DOMAIN uploads
       THEN /\ task' = [task EXCEPT ![w] =
                          [t EXCEPT !.rows = uploads[t.csv_filename],
                                    !.pc = IF Len(uploads[t.csv_filename]) = 0
                                           THEN "chunk_commit" ELSE "row"]]
            /\ UNCHANGED hist
       ELSE /\ task' = [task EXCEPT ![w] = Failed(t)]
            /\ Ended(Failed(t), store, "failed")
    /\ UNCHANGED <<store, bucket, uploads, api, env>>

\* the head of one loop iteration: count the row, report progress at the
\* cadence, parse the two dates. self.update_state is a statement of the
\* per-row try: when the result backend refuses it, the per-row except
\* takes the exception and the loop goes on to the next row
RowBegin(w) ==
    /\ task[w].pc = "row"
    /\ LET t0 == task[w]
           t1 == [t0 EXCEPT !.processed_count = @ + 1, !.row_store = store]
           due == t1.processed_count % PROGRESS_EVERY = 0
           t2 == IF due
                 THEN [t1 EXCEPT !.reports = Append(@, ProgressMeta(t1))]
                 ELSE t1
           bd == to_datetime(CurrentRow(t2).birth_date)
           vd == to_datetime(CurrentRow(t2).visit_date)
       IN  \E delivered \in IF due /\ env.update_state_raises
                            THEN BOOLEAN ELSE {TRUE} :
              task' = [task EXCEPT ![w] =
                         IF ~delivered
                         THEN RowError(t1, "ConnectionError")
                         ELSE IF bd = ParserError \/ vd = ParserError
                         THEN RowError(t2, "ParserError")
                         ELSE [t2 EXCEPT !.pc = "lookup_patient",
                                         !.birth_date = bd, !.visit_date = vd]]
    /\ UNCHANGED <<store, bucket, uploads, hist, api, env>>

\* PatientService.get_patient_by_mrn(db, row['mrn']). In a chunk whose MRNs
\* were all read as integers row['mrn'] is an int: the comparison of the
\* VARCHAR column with it is rejected by the database (ProgrammingError),
\* which leaves the transaction aborted; every statement up to the next
\* commit or rollback is then refused (InternalError)
LookupPatient(w) ==
    /\ task[w].pc = "lookup_patient"
    /\ LET t == task[w] IN
       task' = [task EXCEPT ![w] =
                  IF t.sess = "inactive"
                  THEN RowError(t, "PendingRollbackError")
                  ELSE IF t.sess = "aborted"
                  THEN RowError(t, "InternalError")
                  ELSE IF dtype(ChunkOf(t), "mrn") = "int64"
                  THEN RowError([t EXCEPT !.sess = "aborted"], "ProgrammingError")
                  ELSE [t EXCEPT !.pc = "patient",
                                 !.patient = get_patient_by_mrn(store, CurrentRow(t).mrn)]]
    /\ UNCHANGED <<store, bucket, uploads, hist, api, env>>

\* another session holds an uncommitted patient row with this MRN: the
\* unique index makes the INSERT wait for that transaction to end
InsertWaits(w, mrn) ==
    \E v \in Workers \ {w} : \E p \in task[v].pending : p.mrn = mrn

\* the "if patient:" branch: update_person, or create_patient up to its flush
ReconcilePatient(w) ==
    /\ task[w].pc = "patient"
    /\ task[w].patient = None => ~InsertWaits(w, CurrentRow(task[w]).mrn)
    /\ LET t == task[w]
           r == CurrentRow(t)
       IN  \E refused \in Refusals :
           IF t.patient # None
           THEN LET u == update_person(store, t.patient, r.first_name,
                                       r.last_name, t.birth_date)
                IN  IF refused /\ u.updated
                    THEN Refused(w)
                    ELSE /\ store' = u.store
                         /\ task' = [task EXCEPT ![w] =
                                       IF u.ok
                                       THEN [t EXCEPT !.pc = "lookup_visit",
                                                      !.commits = IF u.updated THEN @ + 1 ELSE @,
                                                      !.patients_updated = @ + 1]
                                       ELSE RowError(t, "AttributeError")]
           ELSE LET c == create_patient_flush(store, r.mrn)
                IN  IF refused
                    THEN Refused(w)
                    ELSE /\ store' = c.store
                         /\ task' = [task EXCEPT ![w] =
                                       IF c.ok
                                       THEN [t EXCEPT !.pc = "patient_commit",
                                                      !.patient = c.id,
                                                      !.pending = {Patient(c.id, r.mrn)}]
                                       ELSE RowError([t EXCEPT !.sess = "inactive"],
                                                     "IntegrityError")]
    /\ UNCHANGED <<bucket, uploads, hist, api, env>>

\* create_patient from the flush on: the person row, the commit, and
\* "patients_created += 1" back in the task
CommitPatient(w) ==
    /\ task[w].pc = "patient_commit"
    /\ LET t == task[w]
           r == CurrentRow(t)
       IN  \E refused \in Refusals :
           IF refused
           THEN Refused(w)
           ELSE /\ store' = create_patient_commit(store, t.patient, r.mrn,
                                                   r.first_name, r.last_name,
                                                   t.birth_date)
                /\ task' = [task EXCEPT ![w] =
                              [t EXCEPT !.pc = "lookup_visit",
                                        !.pending = {},
                                        !.commits = @ + 1,
                                        !.patients_created = @ + 1]]
    /\ UNCHANGED <<bucket, uploads, hist, api, env>>

\* PatientService.get_visit_by_account_number(db, row['visit_account_number'])
LookupVisit(w) ==
    /\ task[w].pc = "lookup_visit"
    /\ LET t == task[w] IN
       task' = [task EXCEPT ![w] =
                  IF t.sess = "inactive"
                  THEN RowError(t, "PendingRollbackError")
                  ELSE IF t.sess = "aborted"
                  THEN RowError(t, "InternalError")
                  ELSE IF dtype(ChunkOf(t), "visit_account_number") = "int64"
                  THEN RowError([t EXCEPT !.sess = "aborted"], "ProgrammingError")
                  ELSE [t EXCEPT !.pc = "visit",
                                 !.visit = get_visit_by_account_number(
                                               store, CurrentRow(t).visit_account_number)]]
    /\ UNCHANGED <<store, bucket, uploads, hist, api, env>>

\* the "if visit:" branch: update_visit, or create_visit
ReconcileVisit(w) ==
    /\ task[w].pc = "visit"
    /\ LET t == task[w]
           r == CurrentRow(t)
       IN  \E refused \in Refusals :
           IF t.visit # None
           THEN LET u == update_visit(store, t.visit, t.visit_date, r.reason)
                IN  IF refused /\ u.updated
                    THEN Refused(w)
                    ELSE /\ store' = u.store
                         /\ task' = [task EXCEPT ![w] =
                                       AfterRow([t EXCEPT
                                           !.commits = IF u.updated THEN @ + 1 ELSE @,
                                           !.visits_updated = @ + 1])]
           ELSE LET c == create_visit(store, t.patient, r.visit_account_number,
                                      t.visit_date, r.reason)
                IN  IF refused
                    THEN Refused(w)
                    ELSE /\ store' = c.store
                         /\ task' = [task EXCEPT ![w] =
                                       IF c.ok
                                       THEN AfterRow([t EXCEPT !.commits = @ + 1,
                                                               !.visits_created = @ + 1])
                                       ELSE RowError([t EXCEPT !.sess = "inactive"],
                                                     "IntegrityError")]
    /\ UNCHANGED <<bucket, uploads, hist, api, env>>

\* db.commit() after each chunk; it is outside the per-row try, so on an
\* inactive session its PendingRollbackError reaches the outer except. On
\* an aborted transaction COMMIT ends it as a rollback, without an error
ChunkCommit(w) ==
    /\ task[w].pc = "chunk_commit"
    /\ LET t == task[w] IN
       \E refused \in Refusals :
       IF t.sess = "inactive" \/ refused
       THEN /\ task' = [task EXCEPT ![w] = Failed(t)]
            /\ Ended(Failed(t), store, "failed")
       ELSE /\ task' = [task EXCEPT ![w] =
                          [t EXCEPT !.commits = @ + 1,
                                    !.sess = "active",
                                    !.chunk_store = store,
                                    !.pc = IF t.processed_count < Len(t.rows)
                                           THEN "row" ELSE "cleanup"]]
            /\ UNCHANGED hist
    /\ UNCHANGED <<store, bucket, uploads, api, env>>

\* Step 4: os.remove(local_filepath) in its own try, then the result
\* dictionary with status completed, then db.close()
Cleanup(w) ==
    /\ task[w].pc = "cleanup"
    /\ LET t == task[w] IN
       \E removable \in BOOLEAN :
          LET ok == removable /\ t.csv_filename \in DOMAIN uploads
              done == [t EXCEPT !.pc = "returned", !.at = "cleanup",
                                !.status = "completed", !.sess = "closed",
                                !.removed = ok]
          IN  /\ uploads' = IF ok THEN os_remove(uploads, t.csv_filename)
                                  ELSE uploads
              /\ task' = [task EXCEPT ![w] = done]
              /\ Ended(done, store, "completed")
    /\ UNCHANGED <<store, bucket, api, env>>

\* the worker process dies: nothing of the task runs any more, and the
\* store rolls back the transaction of the connection it lost
Crash(w) ==
    /\ Running(w)
    /\ task' = [task EXCEPT ![w] = [@ EXCEPT !.pc = "crashed", !.at = task[w].pc,
                                             !.pending = {}]]
    /\ Ended(task[w], store, "crashed")
    /\ UNCHANGED <<store, bucket, uploads, api, env>>

\* the task called with a staged object name, outside the API
Call(w) ==
    /\ \E f \in FileNames : Invoke(w, f, None)
    /\ UNCHANGED <<api, env>>

\* the steps of a started invocation
Run(w) ==
    \/ Fetch(w)
    \/ Count(w)
    \/ Open(w)
    \/ RowBegin(w)
    \/ LookupPatient(w)
    \/ ReconcilePatient(w)
    \/ CommitPatient(w)
    \/ LookupVisit(w)
    \/ ReconcileVisit(w)
    \/ ChunkCommit(w)
    \/ Cleanup(w)

Step(w) == Call(w) \/ Run(w)

(***************************************************************************)
(* Actions of the API process: POST /ingest.                               *)
(***************************************************************************)
\* a second passes on the API host's clock
Tick ==
    /\ api.now < MaxClock
    /\ api' = [api EXCEPT !.now = @ + 1]
    /\ UNCHANGED <<store, bucket, uploads, task, hist, env>>

\* the response of a request that raised
Http500(detail) == [status_code |-> 500, detail |-> detail]

\* ingest_data(records): write the CSV under the timestamp name, upload it
\* under that name, dispatch process_csv_workflow.delay(csv_filename) and
\* acknowledge; a False from upload_file or an exception of delay() becomes
\* a 500.  The handler has no await: a call runs to its end before the
\* next one starts.  A job carries its staged name; batch is history, the
\* rows the dispatching call staged.
Ingest(records) ==
    /\ Len(api.responses) < MaxCalls
    /\ LET csv_filename == csv_filename_at(api.now)
           files == (csv_filename :> csv_rows(records)) @@ api.files
           task_id == Len(api.jobs) + 1
       IN  \E upload_success \in BOOLEAN, broker_up \in BOOLEAN :
              IF ~upload_success
              THEN /\ bucket' = bucket
                   /\ api' = [api EXCEPT
                         !.files = files,
                         !.responses = Append(@, Http500(
                             "Ingestion failed: 500: Failed to upload CSV to S3"))]
              ELSE /\ bucket' = upload_file(bucket, csv_filename, files[csv_filename])
                   /\ api' = IF ~broker_up
                             THEN [api EXCEPT
                                     !.files = files,
                                     !.responses = Append(@, Http500(
                                         "Ingestion failed: OperationalError"))]
                             ELSE [api EXCEPT
                                     !.files = files,
                                     !.jobs = Append(@,
                                         [task_id |-> task_id,
                                          csv_filename |-> csv_filename,
                                          batch |-> files[csv_filename]]),
                                     !.responses = Append(@,
                                         [status_code |-> 200,
                                          records_received |-> Len(records),
                                          csv_filename |-> csv_filename,
                                          task_id |-> task_id])]
    /\ UNCHANGED <<store, uploads, task, hist, env>>

\* the broker hands the oldest undelivered job to worker w
Deliver(w) ==
    /\ api.delivered < Len(api.jobs)
    /\ Invoke(w, api.jobs[api.delivered + 1].csv_filename,
              api.jobs[api.delivered + 1].task_id)
    /\ api' = [api EXCEPT !.delivered = @ + 1]
    /\ UNCHANGED env

\* one worker: the runs of the task follow one another
Next == Step(1)

Spec == Init /\ [][Next]_vars

\* two workers of the pool taking jobs at the same time, on an empty store
\* and a short batch
InitConc ==
    /\ store = EmptyStore
    /\ \E b \in ConcBatches : bucket = (StagedName :> b)
    /\ uploads = <<>>
    /\ task = [w \in Workers |-> IdleTask]
    /\ hist = [runs |-> 0, last |-> NoRun, prev |-> NoRun]
    /\ api = ApiIdle
    /\ env = Reliable

NextConc == \E w \in Workers : Step(w)

SpecConc == InitConc /\ [][NextConc]_vars

\* one worker whose process may die at any point of a run, from an empty
\* store (earlier runs of the behaviour fill it)
InitCrash ==
    /\ store = EmptyStore
    /\ \E b \in CrashBatches : bucket = (StagedName :> b)
    /\ uploads = <<>>
    /\ task = [w \in Workers |-> IdleTask]
    /\ hist = [runs |-> 0, last |-> NoRun, prev |-> NoRun]
    /\ api = ApiIdle
    /\ env = Reliable

NextCrash == Step(1) \/ Crash(1)

SpecCrash == InitCrash /\ [][NextCrash]_vars

\* two workers, either of which may die at any point, on a batch of one row
InitConcCrash ==
    /\ store = EmptyStore
    /\ \E b \in [1..1 -> CrashRowSet] : bucket = (StagedName :> b)
    /\ uploads = <<>>
    /\ task = [w \in Workers |-> IdleTask]
    /\ hist = [runs |-> 0, last |-> NoRun, prev |-> NoRun]
    /\ api = ApiIdle
    /\ env = Reliable

NextConcCrash == \E w \in Workers : Step(w) \/ Crash(w)

SpecConcCrash == InitConcCrash /\ [][NextConcCrash]_vars

(***************************************************************************)
(* Action of the API process: GET /patients.                               *)
(***************************************************************************)
\* get_patients: PaginatedPatientResponse(total, page, page_size, patients),
\* the patients given by their ids
ListPatients(page, page_size, mrn, first_name, last_name) ==
    /\ \E order \in ScanOrders(Matching(store, mrn, first_name, last_name)) :
          LET got == get_patients_paginated(order, page, page_size) IN
          api' = [api EXCEPT !.listed =
                    [total |-> got.total, page |-> page, page_size |-> page_size,
                     patients |-> got.patients,
                     mrn |-> mrn, first_name |-> first_name,
                     last_name |-> last_name]]
    /\ UNCHANGED <<store, bucket, uploads, task, hist, env>>

\* the listing asked of a store at rest
InitList ==
    /\ store \in ListedStores
    /\ bucket = <<>>
    /\ uploads = <<>>
    /\ task = [w \in Workers |-> IdleTask]
    /\ hist = [runs |-> 0, last |-> NoRun, prev |-> NoRun]
    /\ api = ApiIdle
    /\ env = Reliable

NextList ==
    \E page \in Pages, page_size \in PageSizes, mrn \in MrnFilters,
       first_name \in FirstNameFilters, last_name \in LastNameFilters :
          ListPatients(page, page_size, mrn, first_name, last_name)

SpecList == InitList /\ [][NextList]_vars

\* the API taking requests and one worker running the jobs it dispatches
InitIngest ==
    /\ store = EmptyStore
    /\ bucket = <<>>
    /\ uploads = <<>>
    /\ task = [w \in Workers |-> IdleTask]
    /\ hist = [runs |-> 0, last |-> NoRun, prev |-> NoRun]
    /\ api = ApiIdle
    /\ env = Reliable

NextIngest ==
    \/ Tick
    \/ \E records \in Payloads : Ingest(records)
    \/ Deliver(1)
    \/ Run(1)

SpecIngest == InitIngest /\ [][NextIngest]_vars

\* one worker whose result backend may refuse any progress report
InitTelemetry ==
    /\ store = EmptyStore
    /\ \E b \in Batches : bucket = (StagedName :> b)
    /\ uploads = <<>>
    /\ task = [w \in Workers |-> IdleTask]
    /\ hist = [runs |-> 0, last |-> NoRun, prev |-> NoRun]
    /\ api = ApiIdle
    /\ env = [Reliable EXCEPT !.update_state_raises = TRUE]

SpecTelemetry == InitTelemetry /\ [][Next]_vars

\* one worker whose blob fetch, result backend, database and file removal
\* may each fail at any call
InitFaults ==
    /\ store = EmptyStore
    /\ \E b \in CrashBatches : bucket = (StagedName :> b)
    /\ uploads = <<>>
    /\ task = [w \in Workers |-> IdleTask]
    /\ hist = [runs |-> 0, last |-> NoRun, prev |-> NoRun]
    /\ api = ApiIdle
    /\ env = [Reliable EXCEPT !.update_state_raises = TRUE,
                              !.store_raises = TRUE]

SpecFaults == InitFaults /\ [][Next]_vars

\* the same, the worker process being scheduled for as long as the task
\* has a step to take: a started task is not left halfway
SpecFaultsLive == SpecFaults /\ WF_vars(Run(1))

\* the chunk size of the repository
ProgramChunkSize == 500

\* chunks of one row, the model's chunks, and the whole file as one chunk
ChunkSizes == {1, CHUNK_SIZE, ProgramChunkSize}

\* rows whose MRN is a number, and rows whose MRN is not
ChunkRowSet ==
    { Row("1001", "Jane",  "Doe", "1980-01-01", "V1", "2024-03-01", "checkup"),
      Row("1001", "Janet", "Roe", "1980-01-02", "V1", "2024-03-02", "followup"),
      Row("M2",   "Jane",  "Doe", "1980-01-01", "V2", "2024-03-01", "checkup"),
      Row("M2",   "Jane",  "Doe", "not-a-date", "V2", "2024-03-01", "checkup") }

ChunkBatches == UNION { [1..n -> ChunkRowSet] : n \in 0..MaxRows }

\* one worker built with any of the chunk sizes
InitChunks ==
    /\ store = EmptyStore
    /\ \E b \in ChunkBatches : bucket = (StagedName :> b)
    /\ uploads = <<>>
    /\ task = [w \in Workers |-> IdleTask]
    /\ hist = [runs |-> 0, last |-> NoRun, prev |-> NoRun]
    /\ api = ApiIdle
    /\ \E n \in ChunkSizes : env = [Reliable EXCEPT !.chunk_size = n]

SpecChunks == InitChunks /\ [][Next]_vars


(***************************************************************************)
(* Vocabulary of the properties.                                           *)
(***************************************************************************)
\* both dates of the row parse
RowValid(r) ==
    /\ to_datetime(r.birth_date) # ParserError
    /\ to_datetime(r.visit_date) # ParserError

ValidIdx(rows) == {i \in 1..Len(rows) : RowValid(rows[i])}

Max(S) == CHOOSE x \in S : \A y \in S : y <= x

\* rows r and q carry the same names and birth date
SameNames(r, q) ==
    /\ r.first_name = q.first_name
    /\ r.last_name = q.last_name
    /\ r.birth_date = q.birth_date

\* the last valid row carrying the same MRN / account number as row i
LastWithMrn(rows, i) ==
    Max({j \in ValidIdx(rows) : rows[j].mrn = rows[i].mrn})

LastWithAccount(rows, i) ==
    Max({j \in ValidIdx(rows) :
            rows[j].visit_account_number = rows[i].visit_account_number})

PatientsWithMrn(s, mrn) == {p \in s.patients : p.mrn = mrn}

VisitsWithAccount(s, acct) == {v \in s.visits : v.visit_account_number = acct}

\* store s holds a Patient with r's MRN whose Person carries r's fields
PersonReflects(s, r) ==
    \E p \in s.patients :
       /\ p.mrn = r.mrn
       /\ Person(p.id, r.first_name, r.last_name, to_datetime(r.birth_date))
              \in s.persons

\* store s holds a Visit with r's account number, visit date and reason
VisitReflects(s, r) ==
    \E v \in s.visits :
       /\ v.visit_account_number = r.visit_account_number
       /\ v.visit_date = to_datetime(r.visit_date)
       /\ v.reason = r.reason

NaturalKeysUnique(s) ==
    /\ \A p, q \in s.patients : p.mrn = q.mrn => p = q
    /\ \A v, u \in s.visits :
          v.visit_account_number = u.visit_account_number => v = u

\* the last two runs that ended both completed, one after the other, on
\* the same staged batch
Replayed ==
    /\ hist.prev.status = "completed"
    /\ hist.last.status = "completed"
    /\ hist.last.csv_filename = hist.prev.csv_filename
    /\ hist.last.rows = hist.prev.rows
    /\ hist.last.start = hist.prev.end

(***************************************************************************)
(* C1. Running the workflow on a batch to completion and then again on     *)
(* the same batch leaves the store after the second run identical to the   *)
(* store after the first: same Patients (one per MRN), same Person fields, *)
(* same Visits (one per account number); the second run adds nothing.      *)
(***************************************************************************)
C1_ReplayIdempotent ==
    Replayed =>
       /\ hist.last.end = hist.prev.end
       /\ NaturalKeysUnique(hist.last.end)

C1_Witness ==
    /\ Replayed
    /\ Len(hist.last.rows) >= 2
    /\ ValidIdx(hist.last.rows) # {}
    /\ hist.prev.end # hist.prev.start
    /\ hist.prev.patients_updated >= 1

(***************************************************************************)
(* C2. A batch in which exactly one row has an unparseable birth date and  *)
(* every other row is valid ends completed with errorCount = 1.            *)
(***************************************************************************)
OneBadBirthDate(rows) ==
    \E i \in 1..Len(rows) :
       /\ to_datetime(rows[i].birth_date) = ParserError
       /\ \A j \in 1..Len(rows) : j # i => RowValid(rows[j])

\* a run that got its batch and ended, on a batch with one bad birth date
C2_Case ==
    /\ hist.last.status \in {"completed", "failed"}
    /\ hist.last.download_success
    /\ OneBadBirthDate(hist.last.rows)

FreshBatch(rows, s) ==
    /\ Len(rows) >= 1
    /\ \A i \in 1..Len(rows) :
          /\ RowValid(rows[i])
          /\ PatientsWithMrn(s, rows[i].mrn) = {}
          /\ VisitsWithAccount(s, rows[i].visit_account_number) = {}
    /\ \A i, j \in 1..Len(rows) :
          i # j => /\ rows[i].mrn # rows[j].mrn
                   /\ rows[i].visit_account_number # rows[j].visit_account_number

RowDone(w) ==
    /\ task[w].pc \in {"row", "chunk_commit", "cleanup", "returned"}
    /\ task[w].processed_count >= 1

\* the row just finished was valid and its keys were absent when it began
FirstSeen(w) ==
    LET r == CurrentRow(task[w]) IN
    /\ RowDone(w)
    /\ RowValid(r)
    /\ PatientsWithMrn(task[w].row_store, r.mrn) = {}
    /\ VisitsWithAccount(task[w].row_store, r.visit_account_number) = {}

SamePerson(w) ==
    LET t == task[w] IN
    /\ t.pc = "patient"
    /\ t.patient # None
    /\ Person(t.patient, CurrentRow(t).first_name, CurrentRow(t).last_name,
              t.birth_date) \in store.persons

C5_NoOpUpdateCounts ==
    [][\A w \in Workers :
          (SamePerson(w) /\ task'[w] # task[w]) =>
             /\ task'[w].patients_updated = task[w].patients_updated + 1
             /\ task'[w].patients_created = task[w].patients_created
             /\ store' = store
             /\ task'[w].commits = task[w].commits
             /\ task'[w].errors = task[w].errors
             /\ task'[w].pc = "lookup_visit"]_vars

\* an update was counted and no commit has been issued by the session
C5_Witness ==
    /\ task[1].pc = "lookup_visit"
    /\ task[1].patients_updated = 1
    /\ task[1].commits = 0
    /\ store = task[1].store0

(***************************************************************************)
(* C6. A batch spanning more than one chunk, the worker dying after the    *)
(* first chunk was committed and before a row of the second is started:    *)
(* what the first chunk's rows produced is in the store, no later row had  *)
(* an effect, and nothing resumes the run.                                 *)
(***************************************************************************)
CrashedAfterFirstChunk(w) ==
    /\ task[w].pc = "crashed"
    /\ task[w].at = "row"
    /\ task[w].processed_count = CHUNK_SIZE
    /\ Len(task[w].rows) > CHUNK_SIZE

FirstChunk(w) == SubSeq(task[w].rows, 1, CHUNK_SIZE)

C6_FirstChunkDurable ==
    /\ [](\A w \in Workers :
            CrashedAfterFirstChunk(w) =>
               /\ store = task[w].chunk_store
               /\ \A i \in ValidIdx(FirstChunk(w)) :
                     /\ PersonReflects(store,
                            FirstChunk(w)[LastWithMrn(FirstChunk(w), i)])
                     /\ VisitReflects(store,
                            FirstChunk(w)[LastWithAccount(FirstChunk(w), i)])
               /\ \A j \in (CHUNK_SIZE + 1)..Len(task[w].rows) :
                     LET r == task[w].rows[j] IN
                     /\ (/\ PatientsWithMrn(task[w].store0, r.mrn) = {}
                         /\ \A i \in ValidIdx(FirstChunk(w)) :
                               FirstChunk(w)[i].mrn # r.mrn)
                           => PatientsWithMrn(store, r.mrn) = {}
                     /\ (/\ VisitsWithAccount(task[w].store0,
                                              r.visit_account_number) = {}
                         /\ \A i \in ValidIdx(FirstChunk(w)) :
                               FirstChunk(w)[i].visit_account_number
                                  # r.visit_account_number)
                           => VisitsWithAccount(store, r.visit_account_number) = {})
    /\ [][\A w \in Workers :
             (task[w].pc = "crashed" /\ task'[w].pc = "crashed")
                => (store' = store /\ task'[w] = task[w])]_vars

C6_Witness ==
    /\ CrashedAfterFirstChunk(1)
    /\ ValidIdx(FirstChunk(1)) = {1, 2}
    /\ store # task[1].store0
    /\ RowValid(task[1].rows[3])
    /\ PatientsWithMrn(store, task[1].rows[3].mrn) = {}

(***************************************************************************)
(* C7. A create rejected with a natural-key conflict is one row-level      *)
(* error: the later rows are reconciled normally and the run ends          *)
(* completed.                                                              *)
(***************************************************************************)
HadConflict(w) ==
    \E i \in 1..Len(task[w].errors) : task[w].errors[i].error = "IntegrityError"

C7_ConflictIsOneRowError ==
    \A w \in Workers :
       (task[w].pc = "returned" /\ HadConflict(w)) =>
          /\ task[w].status = "completed"
          /\ \A i \in 1..Len(task[w].errors) :
                task[w].errors[i].error # "PendingRollbackError"

(***************************************************************************)
(* C8. Status failed is returned only when the retrieval of the staged     *)
(* blob failed: the run has processed no row.                              *)
(***************************************************************************)
C8_FailedOnlyAtFetch ==
    \A w \in Workers :
       (task[w].pc = "returned" /\ task[w].status = "failed") =>
          /\ ~task[w].download_success
          /\ task[w].at = "fetch"
          /\ task[w].processed_count = 0

(***************************************************************************)
(* C9. A run moves through FETCHING, COUNTING, PROCESSING, CLEANUP,        *)
(* COMPLETED in that order, phase by phase; FAILED is entered from         *)
(* FETCHING only.                                                          *)
(***************************************************************************)
PhaseNext(a, b) ==
    \/ a = b
    \/ <<a, b>> \in { <<"IDLE", "FETCHING">>,
                      <<"FETCHING", "COUNTING">>,
                      <<"COUNTING", "PROCESSING">>,
                      <<"PROCESSING", "CLEANUP">>,
                      <<"CLEANUP", "COMPLETED">>,
                      <<"FETCHING", "FAILED">>,
                      <<"COMPLETED", "FETCHING">>,
                      <<"FAILED", "FETCHING">> }

C9_LinearPhases ==
    [][\A w \in Workers : PhaseNext(Phase(w), Phase(w)')]_vars

(***************************************************************************)
(* C10. When a run reaches COMPLETED and its cleanup step did not fail,    *)
(* the staged blob named by csv_filename no longer exists in the object    *)
(* store.                                                                  *)
(***************************************************************************)
CompletedClean(w) ==
    /\ task[w].pc = "returned"
    /\ task[w].status = "completed"
    /\ task[w].removed

\* C10 as stated
C10_StagedBlobDeleted ==
    \A w \in Workers :
       CompletedClean(w) => task[w].csv_filename \notin DOMAIN bucket

\* C10 as amended: a cleanup step that did not fail has removed the run's
\* downloaded local copy; the staged blob stays in the object store, as it was.
C10_LocalCopyRemoved ==
    [][\A w \in Workers :
          (task[w].pc = "cleanup" /\ task'[w].pc = "returned" /\ task'[w].removed)
             => /\ task'[w].status = "completed"
                /\ task[w].csv_filename \in DOMAIN uploads
                /\ task[w].csv_filename \notin DOMAIN uploads'
                /\ bucket' = bucket
                /\ task[w].csv_filename \in DOMAIN bucket'
                /\ bucket'[task[w].csv_filename] = task[w].rows]_vars

C10_Witness ==
    /\ CompletedClean(1)
    /\ task[1].csv_filename \in DOMAIN bucket
    /\ task[1].csv_filename \notin DOMAIN uploads
    /\ task[1].processed_count >= 1

(***************************************************************************)
(* C11. After a run on staged name f completed, the blob is still staged   *)
(* under f, and a second invocation with f that retrieves it completes too *)
(* and leaves the Patients, Persons and Visits as the first run left them. *)
(***************************************************************************)
\* the last run that ended was a re-invocation on the name of a completed run
Reinvoked ==
    /\ hist.prev.status = "completed"
    /\ hist.last.status \in {"completed", "failed"}
    /\ hist.last.csv_filename = hist.prev.csv_filename
    /\ hist.last.start = hist.prev.end

C11_ReinvocationCompletes ==
    /\ hist.last.status = "completed" =>
          /\ hist.last.csv_filename \in DOMAIN bucket
          /\ bucket[hist.last.csv_filename] = hist.last.rows
    /\ (Reinvoked /\ hist.last.download_success) =>
          /\ hist.last.status = "completed"
          /\ hist.last.rows = hist.prev.rows
          /\ hist.last.end.patients = hist.prev.end.patients
          /\ hist.last.end.persons = hist.prev.end.persons
          /\ hist.last.end.visits = hist.prev.end.visits

\* the first run removed its local copy and created entities; the second
\* fetched the blob again and completed
C11_Witness ==
    /\ Reinvoked
    /\ hist.prev.removed
    /\ hist.last.download_success
    /\ hist.last.status = "completed"
    /\ hist.prev.patients_created >= 1
    /\ hist.prev.visits_created >= 1
    /\ hist.last.processed_records >= 2

(***************************************************************************)
(* C12. An invocation opens its store session once, when it starts, and    *)
(* keeps it until it returns; whichever way it returns (completed, with or *)
(* without row errors, or failed at the fetch or anywhere later) the       *)
(* session is closed.                                                      *)
(***************************************************************************)
SessionOpen(w) == task[w].sess # "closed"

C12_SessionClosedOnReturn ==
    /\ [](\A w \in Workers :
            /\ task[w].pc = "returned" =>
                  (~SessionOpen(w) /\ task[w].status \in {"completed", "failed"})
            /\ Running(w) => SessionOpen(w))
    /\ [][\A w \in Workers :
             /\ (~SessionOpen(w) /\ SessionOpen(w)') =>
                   (~Running(w) /\ task'[w].pc = "fetch")
             /\ (SessionOpen(w) /\ ~SessionOpen(w)') =>
                   task'[w].pc = "returned"]_vars

\* one run failed after its fetch, the other completed with a row error;
\* both have returned
C12_Witness ==
    /\ task[1].pc = "returned" /\ task[1].status = "failed"
    /\ task[1].at # "fetch" /\ task[1].download_success
    /\ task[2].pc = "returned" /\ task[2].status = "completed"
    /\ Len(task[2].errors) >= 1
    /\ ~SessionOpen(1) /\ ~SessionOpen(2)

(***************************************************************************)
(* C13. With two invocations running at once, no committed store state has *)
(* two Patients with one MRN or two Visits with one account number; a      *)
(* worker that found the key absent and creates after the other worker's   *)
(* create was committed gets an IntegrityError and adds no entity.         *)
(***************************************************************************)
\* the step recorded an IntegrityError for worker w and added no entity
LostRace(w) ==
    /\ Len(task'[w].errors) = Len(task[w].errors) + 1
    /\ task'[w].errors[Len(task'[w].errors)].error = "IntegrityError"
    /\ store'.patients = store.patients
    /\ store'.persons = store.persons
    /\ store'.visits = store.visits

C13_NaturalKeysUniqueUnderRaces ==
    /\ [](NaturalKeysUnique(store))
    /\ [][\A w \in Workers :
             /\ (/\ task[w].pc = "patient"
                 /\ task[w].patient = None
                 /\ PatientsWithMrn(store, CurrentRow(task[w]).mrn) # {}
                 /\ task'[w] # task[w]) => LostRace(w)
             /\ (/\ task[w].pc = "visit"
                 /\ task[w].visit = None
                 /\ VisitsWithAccount(store,
                        CurrentRow(task[w]).visit_account_number) # {}
                 /\ task'[w] # task[w]) => LostRace(w)]_vars

\* both workers found the MRN absent; worker 2 created the patient, worker 1
\* got the conflict, and the store holds one Patient with the MRN
C13_Witness ==
    /\ HadConflict(1)
    /\ task[1].patients_created = 0
    /\ task[2].patients_created = 1
    /\ task[2].processed_count = 1
    /\ Cardinality(PatientsWithMrn(store, task[1].rows[1].mrn)) = 1
    /\ Cardinality(store.patients) = 1

(***************************************************************************)
(* C14. Two calls of the ingest endpoint never get the same staging key,   *)
(* also when made within one clock second: the blob a job was dispatched   *)
(* for is not replaced by another call's, and the run of the job reads the *)
(* batch it was dispatched for.                                            *)
(***************************************************************************)
C14_DistinctStagingKeys ==
    /\ \A i, j \in 1..Len(api.jobs) :
          i # j => api.jobs[i].csv_filename # api.jobs[j].csv_filename
    /\ \A i \in 1..Len(api.jobs) :
          bucket[api.jobs[i].csv_filename] = api.jobs[i].batch
    /\ \A w \in Workers :
          (/\ task[w].task_id # None
           /\ task[w].download_success
           /\ task[w].pc \notin {"count", "open"})
             => task[w].rows = api.jobs[task[w].task_id].batch

(***************************************************************************)
(* C15. A call of the ingest endpoint dispatches a job only after its blob *)
(* was stored: a call whose upload failed answers with a failure and       *)
(* dispatches nothing, and a call that acknowledges has dispatched exactly *)
(* one job, whose argument is the staged key of the acknowledgment and     *)
(* under which the blob of the call is stored.                             *)
(***************************************************************************)
\* the response a step of the API returned
Answered == Len(api'.responses) = Len(api.responses) + 1

LastResponse == api'.responses[Len(api'.responses)]

LastJob == api'.jobs[Len(api'.jobs)]

C15_DispatchAfterStore ==
    [][/\ api'.jobs # api.jobs => (Answered /\ LastResponse.status_code = 200)
       /\ (Answered /\ LastResponse.status_code = 200) =>
             /\ api'.jobs = Append(api.jobs, LastJob)
             /\ LastJob.csv_filename = LastResponse.csv_filename
             /\ LastJob.task_id = LastResponse.task_id
             /\ LastResponse.csv_filename \in DOMAIN bucket'
             /\ bucket'[LastResponse.csv_filename] = LastJob.batch
             /\ Len(LastJob.batch) = LastResponse.records_received
       /\ (Answered /\ LastResponse.status_code = 500) =>
             /\ api'.jobs = api.jobs
             /\ LastResponse.detail =
                   "Ingestion failed: 500: Failed to upload CSV to S3"
                      => bucket' = bucket]_vars

\* one call was refused because its upload failed, one was acknowledged,
\* and the job of the acknowledged call has been run to completion
C15_Witness ==
    /\ Len(api.responses) = 2
    /\ api.responses[1].status_code = 500
    /\ api.responses[1].detail = "Ingestion failed: 500: Failed to upload CSV to S3"
    /\ api.responses[2].status_code = 200
    /\ Len(api.jobs) = 1
    /\ api.delivered = 1
    /\ task[1].pc = "returned" /\ task[1].status = "completed"
    /\ task[1].processed_count = 1

(***************************************************************************)
(* C16. Listing a store of 25 patients with page = 2, pageSize = 10 and no *)
(* filters returns exactly 5 items and total = 25.                         *)
(***************************************************************************)
\* the last listing was unfiltered, of 25 patients, with pageSize = 10
Listed25 ==
    /\ api.listed.total >= 0
    /\ Cardinality(store.patients) = 25
    /\ api.listed.page_size = 10
    /\ Len(api.listed.mrn) = 0
    /\ Len(api.listed.first_name) = 0
    /\ Len(api.listed.last_name) = 0

\* the items are patients of the store, none twice
ItemsDistinct ==
    /\ \A i \in 1..Len(api.listed.patients) :
          \E p \in store.patients : p.id = api.listed.patients[i]
    /\ \A i, j \in 1..Len(api.listed.patients) :
          i # j => api.listed.patients[i] # api.listed.patients[j]

\* C16 as stated
C16_PageTwoHasFive ==
    (Listed25 /\ api.listed.page = 2) =>
       (Len(api.listed.patients) = 5 /\ api.listed.total = 25)

\* C16 as amended: page 2 holds 10 items, it is page 3 that holds the
\* remaining 5; total = 25 on every page
C16_PageThreeHasFive ==
    Listed25 =>
       /\ api.listed.total = 25
       /\ ItemsDistinct
       /\ api.listed.page = 1 => Len(api.listed.patients) = 10
       /\ api.listed.page = 2 => Len(api.listed.patients) = 10
       /\ api.listed.page = 3 => Len(api.listed.patients) = 5

C16_Witness ==
    /\ Listed25
    /\ api.listed.page = 3
    /\ Len(api.listed.patients) = 5

(***************************************************************************)
(* C17. total is the number of patients matching all supplied filters,     *)
(* whatever the page and pageSize, and the items of page p are the         *)
(* matching patients at positions (p-1)*pageSize+1 .. p*pageSize in        *)
(* ascending id order.                                                     *)
(***************************************************************************)
\* the matching ids of the last listing, in ascending order
MatchingAscending ==
    Ascending(Matching(store, api.listed.mrn, api.listed.first_name,
                       api.listed.last_name))

C17_PagesInIdOrder ==
    api.listed.total >= 0 =>
       /\ api.listed.total = Len(MatchingAscending)
       /\ api.listed.patients =
             SubSeq(MatchingAscending,
                    (api.listed.page - 1) * api.listed.page_size + 1,
                    IF api.listed.page * api.listed.page_size < api.listed.total
                    THEN api.listed.page * api.listed.page_size
                    ELSE api.listed.total)

(***************************************************************************)
(* C18. In every committed store state the workflow reaches, also after a  *)
(* rejected create and after a worker died at any point, every Patient has *)
(* its Person and every Person its Patient, under the same id; a patient   *)
(* row without a person row exists only uncommitted, inside create_patient.*)
(***************************************************************************)
OneToOne(s) ==
    /\ {p.id : p \in s.patients} = {q.id : q \in s.persons}
    /\ \A p, q \in s.patients : p.id = q.id => p = q
    /\ \A p, q \in s.persons : p.id = q.id => p = q

C18_PatientPersonOneToOne ==
    /\ OneToOne(store)
    /\ \A w \in Workers :
          task[w].pending # {} => task[w].pc = "patient_commit"

\* worker 1 died between the flush and the commit of create_patient, and
\* worker 2 has created the patient of the same row afterwards
C18_Witness ==
    /\ task[1].pc = "crashed"
    /\ task[1].at = "patient_commit"
    /\ task[2].patients_created = 1
    /\ Cardinality(store.patients) = 1
    /\ store.patient_seq = 2

(***************************************************************************)
(* C19. A Visit, once created, keeps its owning patient and its account    *)
(* number through every step of every run: reconciling an existing visit   *)
(* changes its visit date and reason only.                                 *)
(***************************************************************************)
C19_VisitOwnerFixed ==
    [][\A v \in store.visits :
          \E u \in store'.visits :
             /\ u.id = v.id
             /\ u.patient_id = v.patient_id
             /\ u.visit_account_number = v.visit_account_number]_vars

\* the owner of the visit with account number acct, by MRN
OwnerMrn(s, acct) ==
    LET v == CHOOSE x \in s.visits : x.visit_account_number = acct
    IN  (CHOOSE p \in s.patients : p.id = v.patient_id).mrn

\* the row just finished carried the account number of another patient's
\* visit, and that visit's date or reason was rewritten
C19_Witness ==
    /\ RowDone(1)
    /\ RowValid(CurrentRow(task[1]))
    /\ VisitsWithAccount(task[1].row_store,
                         CurrentRow(task[1]).visit_account_number) # {}
    /\ OwnerMrn(store, CurrentRow(task[1]).visit_account_number)
          # CurrentRow(task[1]).mrn
    /\ store.visits # task[1].row_store.visits

(***************************************************************************)
(* C20. A row whose visit account number belongs to a Visit of a patient   *)
(* with another MRN is recorded as a row error: the Visit stays as it was  *)
(* and visitsUpdated is not incremented.                                   *)
(***************************************************************************)
\* worker w is about to reconcile a visit that another patient owns
ForeignVisit(w) ==
    /\ task[w].pc = "visit"
    /\ task[w].visit # None
    /\ OwnerMrn(store, CurrentRow(task[w]).visit_account_number)
          # CurrentRow(task[w]).mrn

C20_ForeignVisitIsRowError ==
    [][\A w \in Workers :
          (ForeignVisit(w) /\ task'[w] # task[w]) =>
             /\ Len(task'[w].errors) = Len(task[w].errors) + 1
             /\ store'.visits = store.visits
             /\ task'[w].visits_updated = task[w].visits_updated]_vars


(***************************************************************************)
(* C21. After a completed run of a single worker, the stored Person of     *)
(* every MRN of the batch carries the names and birth date of the last     *)
(* non-error row with that MRN in source order, and the stored Visit of    *)
(* every account number carries the date and reason of the last non-error  *)
(* row with that account number; each row is reconciled exactly once per   *)
(* run, in source order.                                                   *)
(***************************************************************************)
\* the run that ended last completed after reading its batch
CompletedRun == hist.last.status = "completed"

BetweenRows(w) ==
    task[w].pc \in {"row", "chunk_commit", "cleanup", "returned"}

C22_OneOutcomePerRow ==
    \A w \in Workers :
       BetweenRows(w) =>
          /\ task[w].patients_created + task[w].patients_updated
                = task[w].processed_count - Len(task[w].errors)
          /\ task[w].visits_created + task[w].visits_updated
                = task[w].processed_count - Len(task[w].errors)

(***************************************************************************)
(* C24. A progress report is emitted exactly when the number of rows       *)
(* processed reaches a positive multiple of the reporting interval; in a   *)
(* report with processedCount = k the running tallies account for rows     *)
(* 1..k (visitsCreated + visitsUpdated + row errors so far = k),           *)
(* processedCount <= totalCount and 0 <= percentComplete <= 100;           *)
(* successive reports have strictly increasing processedCount.             *)
(***************************************************************************)
\* the step emits a progress report for worker w
Reports(w) == Len(task'[w].reports) = Len(task[w].reports) + 1

LastReport(w) == task'[w].reports[Len(task'[w].reports)]

C24_ReportsDescribeReconciledRows ==
    /\ [](\A w \in Workers :
            \A i \in 1..Len(task[w].reports) :
               LET r == task[w].reports[i] IN
               /\ r.current = i * PROGRESS_EVERY
               /\ r.current <= r.total
               /\ 0 <= r.percent /\ r.percent <= 100)
    /\ [][\A w \in Workers :
             /\ Reports(w) <=>
                   /\ task'[w].processed_count = task[w].processed_count + 1
                   /\ task'[w].processed_count % PROGRESS_EVERY = 0
             /\ Reports(w) =>
                   /\ LastReport(w).current = task'[w].processed_count
                   /\ LastReport(w).visits_created + LastReport(w).visits_updated
                         + Len(task[w].errors) = LastReport(w).current]_vars

(***************************************************************************)
(* C25. Every create or changing update performed for a row is durable as  *)
(* soon as the row's processing finishes: when the worker dies during      *)
(* PROCESSING, also in the middle of a chunk before the commit that ends   *)
(* the chunk, the store holds the effects of every row that had finished   *)
(* before, and no write of a finished row is lost.                         *)
(***************************************************************************)
\* worker w died while processing rows
CrashedProcessing(w) ==
    /\ task[w].pc = "crashed"
    /\ task[w].at \in {"row", "lookup_patient", "patient", "patient_commit",
                       "lookup_visit", "visit", "chunk_commit"}

\* w died between two rows (or before the commit that follows the last row
\* of a chunk), not in the middle of one
DiedBetweenRows(w) == task[w].at \in {"row", "chunk_commit"}

\* the rows w had finished when it died
Finished(w) ==
    SubSeq(task[w].rows, 1,
           IF DiedBetweenRows(w) THEN task[w].processed_count
                                 ELSE task[w].processed_count - 1)

\* the store once the last finished row was done
StoreAfterFinished(w) ==
    IF DiedBetweenRows(w) THEN store ELSE task[w].row_store

C25_FinishedRowsDurable ==
    \A w \in Workers :
       CrashedProcessing(w) =>
          /\ \A i \in ValidIdx(Finished(w)) :
                /\ PersonReflects(StoreAfterFinished(w),
                       Finished(w)[LastWithMrn(Finished(w), i)])
                /\ VisitReflects(StoreAfterFinished(w),
                       Finished(w)[LastWithAccount(Finished(w), i)])
          /\ ~DiedBetweenRows(w) =>
                LET r == CurrentRow(task[w]) IN
                /\ task[w].row_store.patients \subseteq store.patients
                /\ \A q \in task[w].row_store.persons :
                      \/ q \in store.persons
                      \/ Patient(q.id, r.mrn) \in store.patients
                /\ \A v \in task[w].row_store.visits :
                      \/ v \in store.visits
                      \/ v.visit_account_number = r.visit_account_number

\* the worker died after a changing update of the second chunk, before the
\* commit that ends that chunk
C25_Witness ==
    /\ CrashedProcessing(1)
    /\ task[1].at = "chunk_commit"
    /\ task[1].processed_count = 3
    /\ task[1].chunk_store # store
    /\ ValidIdx(task[1].rows) = {1, 2, 3}
    /\ task[1].rows[3].mrn = task[1].rows[1].mrn
    /\ ~SameNames(task[1].rows[3], task[1].rows[1])

(***************************************************************************)
(* C26. No step of any workflow run removes an entity: along every         *)
(* execution (any number of runs, sequential or concurrent, with or        *)
(* without row errors) the sets of committed Patients, Persons and Visits  *)
(* only grow, and an existing Patient's MRN never changes.                 *)
(***************************************************************************)
C26_EntitiesOnlyGrow ==
    [][/\ \A p \in store.patients : p \in store'.patients
       /\ \A q \in store.persons : \E q2 \in store'.persons : q2.id = q.id
       /\ \A v \in store.visits : \E v2 \in store'.visits : v2.id = v.id
       /\ Cardinality(store.patients) <= Cardinality(store'.patients)
       /\ Cardinality(store.persons) <= Cardinality(store'.persons)
       /\ Cardinality(store.visits) <= Cardinality(store'.visits)]_vars

\* both workers ran on a store that already held the Patient and the Visit,
\* and one of them recorded a row error
C26_Witness ==
    /\ \A w \in Workers : task[w].pc = "returned" /\ task[w].download_success
    /\ \E w \in Workers : task[w].patients_updated = 1
    /\ \E w \in Workers : task[w].errors # <<>>
    /\ store.patients # {} /\ store.visits # {}

(***************************************************************************)
(* C23. Progress emission is pure telemetry: the final store, the four     *)
(* tallies and the error list of a run are the same whether each progress  *)
(* report (update_state) succeeds or raises; a failing progress report     *)
(* never prevents the reconciliation of a row and never adds an error      *)
(* entry.                                                                  *)
(***************************************************************************)
\* the step starts a row at which a report is due, and the report fails
ReportFails(w) ==
    /\ task[w].pc = "row"
    /\ task'[w].processed_count = task[w].processed_count + 1
    /\ task'[w].processed_count % PROGRESS_EVERY = 0
    /\ task'[w].reports = task[w].reports

\* what a completed run leaves when every report is delivered (C21), and
\* a row whose report fails goes on being reconciled
C23_ReportsArePureTelemetry ==
    /\ [](CompletedRun =>
            LET rows == hist.last.rows IN
            /\ hist.last.error_count = Len(rows) - Cardinality(ValidIdx(rows))
            /\ hist.last.patients_created + hist.last.patients_updated
                  = Cardinality(ValidIdx(rows))
            /\ hist.last.visits_created + hist.last.visits_updated
                  = Cardinality(ValidIdx(rows))
            /\ \A i \in ValidIdx(rows) :
                  /\ PersonReflects(hist.last.end, rows[LastWithMrn(rows, i)])
                  /\ VisitReflects(hist.last.end,
                                   rows[LastWithAccount(rows, i)]))
    /\ [][\A w \in Workers :
             ReportFails(w) =>
                IF RowValid(CurrentRow(task'[w]))
                THEN /\ task'[w].pc = "lookup_patient"
                     /\ task'[w].errors = task[w].errors
                ELSE /\ Len(task'[w].errors) = Len(task[w].errors) + 1
                     /\ task'[w].errors[Len(task'[w].errors)].error
                           = "ParserError"]_vars

(***************************************************************************)
(* C27. Every invocation of process_csv_workflow on a finite staged file   *)
(* eventually returns a terminal result whose status is completed or       *)
(* failed, whatever combination of blob-fetch failure, row-level errors,   *)
(* store errors and cleanup failure occurs; no exception escapes the task  *)
(* and no row error makes the run stop before the last row.                *)
(***************************************************************************)
\* every started invocation returns, with one of the two terminal statuses
Terminates ==
    /\ \A w \in Workers : Running(w) ~> (task[w].pc = "returned")
    /\ [](\A w \in Workers :
            task[w].pc = "returned" => task[w].status \in {"completed", "failed"})

\* a run that recorded a row error went on to the last row all the same
RowErrorsDoNotStop ==
    \A w \in Workers :
       (task[w].pc = "returned" /\ task[w].errors # <<>>)
          => task[w].processed_count = Len(task[w].rows)

C27_AlwaysTerminal == Terminates /\ []RowErrorsDoNotStop

(***************************************************************************)
(* C28. For a single worker with no crash, the terminal result (tallies,   *)
(* error list, processedRecords) and the final store of a run are          *)
(* independent of the chunk size: the same batch from the same initial     *)
(* store with chunk size 1, with chunk size 500, or as a single chunk      *)
(* yields the same result and the same store.                              *)
(***************************************************************************)
\* what the run of a batch leaves when the file is read as a single chunk:
\* a file whose MRNs all read as integers has every row refused; in any
\* other file the MRNs are strings, each row whose dates parse is
\* reconciled, and the last such row of a key decides the stored values
AsOneChunk ==
    LET rows == hist.last.rows
        valid == IF rows # <<>> /\ dtype(rows, "mrn") = "int64"
                 THEN {} ELSE ValidIdx(rows)
    IN  /\ hist.last.processed_records = Len(rows)
        /\ hist.last.error_count = Len(rows) - Cardinality(valid)
        /\ hist.last.patients_created + hist.last.patients_updated
              = Cardinality(valid)
        /\ hist.last.visits_created + hist.last.visits_updated
              = Cardinality(valid)
        /\ valid = {} => hist.last.end = hist.last.start
        /\ \A i \in valid :
              /\ PersonReflects(hist.last.end, rows[LastWithMrn(rows, i)])
              /\ VisitReflects(hist.last.end, rows[LastWithAccount(rows, i)])

\* whatever the chunk size, a completed run leaves what the single chunk
\* leaves
C28_ChunkSizeIndependent == CompletedRun => AsOneChunk
=============================================================================
